---- MODULE Spec2Model ----
(***************************************************************************)
(* A model of the nextjs-youtube-dl front end and its deployment scripts:  *)
(*   - the DownloadForm component (URL validation, the video-info and      *)
(*     download requests and the handling of their responses),             *)
(*   - the /api proxy rules (Next.js rewrite, nginx location),             *)
(*   - deploy.sh and the API start script, as far as the cookie file goes. *)
(***************************************************************************)
EXTENDS Naturals, Integers, Sequences, FiniteSets, Bags, TLC

VARIABLES
  \* the state of the DownloadForm component
  url, loading, error, downloadData, progress,
  \* the requests of the form that are in flight, and the last handler that ran
  inflight, last,
  \* the run of a shell script: which script, where it is, its working
  \* directory, the files it can see, the cookie file as the run found it,
  \* the installed Node.js and npm, and the last message about the cookie file
  script, pc, cwd, fs, cookie0, nodeMajor, npm, out

formVars == <<url, loading, error, downloadData, progress, inflight, last>>

shVars == <<script, pc, cwd, fs, cookie0, nodeMajor, npm, out>>

vars == <<formVars, shVars>>

----------------------------------------------------------------------------
(* Bounds *)

\* the largest number of requests outstanding at once that the model explores
MaxInFlight == 3

----------------------------------------------------------------------------
(* Strings are sequences of one-character strings. *)

\* the null of JavaScript, comparable with the objects the state holds
Null == [null |-> TRUE]

StartsWith(s, p) == Len(s) >= Len(p) /\ SubSeq(s, 1, Len(p)) = p

Drop(s, n) == SubSeq(s, n + 1, Len(s))

WhiteSpace == {" ", "\t"}

LineTerminators == {"\n", "\r"}

RECURSIVE TrimStart(_)
TrimStart(s) ==
  IF s /= <<>> /\ Head(s) \in WhiteSpace THEN TrimStart(Tail(s)) ELSE s

RECURSIVE TrimEnd(_)
TrimEnd(s) ==
  IF s /= <<>> /\ s[Len(s)] \in WhiteSpace
  THEN TrimEnd(SubSeq(s, 1, Len(s) - 1)) ELSE s

\* String.prototype.trim
Trim(s) == TrimEnd(TrimStart(s))

----------------------------------------------------------------------------
(* The pieces of the URLs the user may enter. *)

sHttp   == <<"h","t","t","p">>
sS      == <<"s">>
sColon  == <<":","/","/">>
sFtp    == <<"f","t","p",":","/","/">>
sWww    == <<"w","w","w",".">>
sWwwX   == <<"w","w","w","x">>
sTube   == <<"y","o","u","t","u","b","e">>
sCom    == <<"c","o","m">>
sDot    == <<".">>
sYoutuBe == <<"y","o","u","t","u",".","b","e">>
sTubeX  == <<"y","o","u","t","u","b","e","x","c","o","m">>
sVimeo  == <<"v","i","m","e","o",".","c","o","m">>
sSlash  == <<"/">>

urlA == sHttp \o sS \o sColon \o sWww \o sTube \o sDot \o sCom \o sSlash \o <<"a">>
urlB == sHttp \o sColon \o sYoutuBe \o sSlash \o <<"b">>
urlBad == sHttp \o sS \o sColon \o sVimeo \o sSlash \o <<"a">>

\* the URLs typed in the concurrency model: nothing, two videos, another site
\* (each one a value that the type="url" input lets the form submit)
Urls == {<<>>, urlA, urlB, urlBad}

Schemes == {<<>>, sHttp \o sColon, sHttp \o sS \o sColon, sFtp, <<" ">>,
            sHttp \o sS \o sS \o sColon}
Wwws    == {<<>>, sWww, sWwwX}
Hosts   == {sTube \o sDot \o sCom, sYoutuBe, sTubeX, sVimeo}
Rests   == {<<>>, sSlash, sSlash \o <<"a">>, <<"a">>, sSlash \o <<" ">>}

\* the URLs typed in the validation model; the value of a single-line input
\* holds no line break
AllUrls ==
  {<<>>, <<" ">>, <<" ", "\t">>}
  \cup {a \o b \o c \o d : a \in Schemes, b \in Wwws, c \in Hosts, d \in Rests}

----------------------------------------------------------------------------
(* isValidYouTubeUrl:                                                      *)
(*   /^(https?\:\/\/)?(www\.)?(youtube\.com|youtu\.be)\/.+/.test(url)      *)
(* computed as a matcher does: each group maps the set of remainders that  *)
(* the pattern so far can leave to the set the next group can leave.       *)

\* the remainders after a literal
Lit(R, p) == {Drop(s, Len(p)) : s \in {x \in R : StartsWith(x, p)}}

\* the remainders after an optional group
Opt(R, G) == R \cup G

reScheme(R) == Opt(R, Lit(Opt(Lit(R, sHttp), Lit(Lit(R, sHttp), sS)), sColon))

reWww(R) == Opt(R, Lit(R, sWww))

reHost(R) == Lit(R, sTube \o sDot \o sCom) \cup Lit(R, sYoutuBe)

\* ".+" : at least one character that is not a line terminator
reRest(R) == {s \in R : s /= <<>> /\ Head(s) \notin LineTerminators}

\* the pattern with the dot of "youtube.com" left unescaped
reHostAnyDot(R) ==
  reHost(R) \cup {Drop(s, Len(sTubeX)) :
                    s \in {x \in R : /\ Len(x) >= Len(sTubeX)
                                     /\ StartsWith(x, sTube)
                                     /\ SubSeq(x, 9, 11) = sCom}}

isValidYouTubeUrlAnyDot(u) ==
  reRest(Lit(reHostAnyDot(reWww(reScheme({u}))), sSlash)) /= {}

isValidYouTubeUrl(u) ==
  reRest(Lit(reHost(reWww(reScheme({u}))), sSlash)) /= {}

----------------------------------------------------------------------------
(* Requests *)

\* const API_BASE = '/api' : a path, so the request goes to the page's origin
API_BASE == [origin |-> "self", path |-> <<"api">>]

\* `${API_BASE}/video-info`
Endpoint(base, name) == [origin |-> base.origin, path |-> base.path \o <<name>>]

\* the response body of the backend for a URL
VideoInfo(u) == [videoId |-> <<"id", u>>, title |-> <<"title", u>>]

\* the requests handleSubmit issues for the state it sees
SubmitRequests(u) ==
  << [target |-> Endpoint(API_BASE, "video-info"),
      body   |-> [url |-> u],
      superseded |-> FALSE] >>

\* a download that is sent twice
DownloadRequestsTwice(u, d) ==
  LET r == [target |-> Endpoint(API_BASE, "download"),
            body   |-> [url |-> u, videoId |-> d.videoId, title |-> d.title],
            superseded |-> FALSE]
  IN << r, r >>

\* the requests handleDownload issues for the state it sees
DownloadRequests(u, d) ==
  << [target |-> Endpoint(API_BASE, "download"),
      body   |-> [url |-> u, videoId |-> d.videoId, title |-> d.title],
      superseded |-> FALSE] >>

IsInfo(r) == r.target.path = <<"api", "video-info">>
IsDownload(r) == r.target.path = <<"api", "download">>

InFlight == BagToSet(inflight)
InfoInFlight == {r \in InFlight : IsInfo(r)}
DownloadInFlight == {r \in InFlight : IsDownload(r)}
NInFlight == BagCardinality(inflight)
Count(S) == BagCardinality([r \in S |-> inflight[r]])

RECURSIVE Issue(_, _)
Issue(b, reqs) ==
  IF reqs = <<>> THEN b ELSE Issue(b (+) SetToBag({Head(reqs)}), Tail(reqs))

Settle(b, r) == b (-) SetToBag({r})

\* the downloads begun before a Convert is accepted belong to an older conversion
Supersede(r) == IF IsDownload(r) THEN [r EXCEPT !.superseded = TRUE] ELSE r

Older(b) ==
  [r \in {Supersede(x) : x \in BagToSet(b)} |->
     LET S == {x \in BagToSet(b) : Supersede(x) = r}
         RECURSIVE Sum(_)
         Sum(T) == IF T = {} THEN 0
                   ELSE LET x == CHOOSE y \in T : TRUE IN b[x] + Sum(T \ {x})
     IN Sum(S)]

----------------------------------------------------------------------------
(* The component *)

\* useState('') , useState(false), useState(''), useState(null), useState(0)
FormInit ==
  /\ url = <<>>
  /\ loading = FALSE
  /\ error = ""
  /\ downloadData = Null
  /\ progress = 0
  /\ inflight = EmptyBag
  /\ last = [op |-> "init", issued |-> 0, superseded |-> FALSE]

\* no script is running
NoScript ==
  /\ script = "none"
  /\ pc = "idle"
  /\ cwd = <<>>
  /\ fs = <<>>
  /\ cookie0 = Null
  /\ nodeMajor = 0
  /\ npm = FALSE
  /\ out = ""

Init == FormInit /\ NoScript

Did(op, n) == [op |-> op, issued |-> n, superseded |-> FALSE]

\* onChange={(e) => setUrl(e.target.value)}, on an input that is disabled={loading}
onChange(v) ==
  /\ ~loading
  /\ url' = v
  /\ last' = Did("edit", 0)
  /\ UNCHANGED <<loading, error, downloadData, progress, inflight>>
  /\ UNCHANGED shVars

EditUrl == \E v \in Urls : onChange(v)

TypeUrl == \E v \in AllUrls : onChange(v)

\* a Convert button that is never disabled
ConvertAlwaysEnabled == TRUE

\* the Convert button submits the form unless it is disabled={loading}
ConvertEnabled == ~loading

\* handleSubmit, up to the await of fetch.  The handler runs on whatever the
\* input holds: the browser's own check of a type="url" input can only keep
\* a submission from reaching it.
handleSubmit ==
  /\ ConvertEnabled
  /\ IF Trim(url) = <<>>
     THEN /\ error' = "Please enter a YouTube URL"
          /\ last' = Did("submit", 0)
          /\ UNCHANGED <<url, loading, downloadData, progress, inflight>>
     ELSE IF ~isValidYouTubeUrl(url)
     THEN /\ error' = "Please enter a valid YouTube URL"
          /\ last' = Did("submit", 0)
          /\ UNCHANGED <<url, loading, downloadData, progress, inflight>>
     ELSE /\ NInFlight + Len(SubmitRequests(url)) <= MaxInFlight
          /\ loading' = TRUE
          /\ error' = ""
          /\ downloadData' = Null
          /\ progress' = 0
          /\ inflight' = Issue(Older(inflight), SubmitRequests(url))
          /\ last' = Did("submit", Len(SubmitRequests(url)))
          /\ UNCHANGED url
  /\ UNCHANGED shVars

\* handleSubmit resumed: infoResponse.ok and infoResponse.json() resolves
InfoOk ==
  \E r \in InfoInFlight :
    \E videoInfo \in {VideoInfo(r.body.url), Null} :
      /\ inflight' = Settle(inflight, r)
      /\ downloadData' = videoInfo
      /\ progress' = 100
      /\ loading' = FALSE
      /\ last' = Did("infoOk", 0)
      /\ UNCHANGED <<url, error>>
      /\ UNCHANGED shVars

\* the message of the error thrown in handleSubmit's try block
InfoErrors ==
  { "Failed to get video information",   \* !infoResponse.ok
    "Failed to fetch",                   \* fetch rejects
    "Unexpected token",                  \* infoResponse.json() rejects
    "" }                                 \* a rejection without a message

\* a catch block without the fallback message
InfoFailNoFallback ==
  \E r \in InfoInFlight :
    \E message \in InfoErrors :
      /\ inflight' = Settle(inflight, r)
      /\ error' = message
      /\ loading' = FALSE
      /\ last' = Did("infoFail", 0)
      /\ UNCHANGED <<url, downloadData, progress>>
      /\ UNCHANGED shVars

\* handleSubmit resumed: the catch and finally blocks
InfoFail ==
  \E r \in InfoInFlight :
    \E message \in InfoErrors :
      /\ inflight' = Settle(inflight, r)
      /\ error' = IF message /= "" THEN message
                  ELSE "An error occurred while processing the video"
      /\ loading' = FALSE
      /\ last' = Did("infoFail", 0)
      /\ UNCHANGED <<url, downloadData, progress>>
      /\ UNCHANGED shVars

\* a handleDownload without its early return
handleDownloadNoGuard ==
  LET d == IF downloadData = Null
           THEN [videoId |-> Null, title |-> Null] ELSE downloadData
  IN /\ NInFlight + Len(DownloadRequests(url, d)) <= MaxInFlight
     /\ inflight' = Issue(inflight, DownloadRequests(url, d))
     /\ last' = Did("download", Len(DownloadRequests(url, d)))
     /\ UNCHANGED <<url, loading, error, downloadData, progress>>
     /\ UNCHANGED shVars

\* handleDownload, up to the await of fetch.  The Download MP3 button is
\* rendered inside the result panel and is never disabled; the early return
\* covers a call that finds no result.
handleDownload ==
  /\ IF downloadData = Null
     THEN /\ last' = Did("download", 0)
          /\ UNCHANGED <<url, loading, error, downloadData, progress, inflight>>
     ELSE /\ NInFlight + Len(DownloadRequests(url, downloadData)) <= MaxInFlight
          /\ inflight' = Issue(inflight, DownloadRequests(url, downloadData))
          /\ last' = Did("download", Len(DownloadRequests(url, downloadData)))
          /\ UNCHANGED <<url, loading, error, downloadData, progress>>
  /\ UNCHANGED shVars

\* handleDownload resumed: response.ok, the blob is saved through a link
DownloadOk ==
  \E r \in DownloadInFlight :
    /\ inflight' = Settle(inflight, r)
    /\ last' = [op |-> "downloadOk", issued |-> 0, superseded |-> r.superseded]
    /\ UNCHANGED <<url, loading, error, downloadData, progress>>
    /\ UNCHANGED shVars

\* handleDownload resumed: the catch block
DownloadFail ==
  \E r \in DownloadInFlight :
    /\ inflight' = Settle(inflight, r)
    /\ error' = "Download failed. Please try again."
    /\ last' = [op |-> "downloadFail", issued |-> 0, superseded |-> r.superseded]
    /\ UNCHANGED <<url, loading, downloadData, progress>>
    /\ UNCHANGED shVars

Next ==
  \/ EditUrl
  \/ handleSubmit
  \/ InfoOk
  \/ InfoFail
  \/ handleDownload
  \/ DownloadOk
  \/ DownloadFail

Spec == Init /\ [][Next]_vars

\* the form with every URL of AllUrls typed into it, and no download
NextValidation ==
  \/ TypeUrl
  \/ handleSubmit
  \/ InfoOk
  \/ InfoFail

ValidationSpec == Init /\ [][NextValidation]_vars

----------------------------------------------------------------------------
(* The proxy rules.  A path is the sequence of its segments. *)

BackendPort == 5000

\* a rewrite whose destination drops the /api prefix
NextRewriteNoPrefix(path) ==
  IF path /= <<>> /\ Head(path) = "api"
  THEN [host |-> "localhost", port |-> BackendPort, path |-> Tail(path)]
  ELSE [host |-> "self", port |-> 3000, path |-> path]

\* rewrites(): source '/api/:path*', destination 'http://localhost:5000/api/:path*'
NextRewrite(path) ==
  IF path /= <<>> /\ Head(path) = "api"
  THEN LET pathParam == Tail(path)
       IN [host |-> "localhost", port |-> BackendPort,
           path |-> <<"api">> \o pathParam]
  ELSE [host |-> "self", port |-> 3000, path |-> path]

\* location /api/ { proxy_pass http://127.0.0.1:5000/api/; } : the part of the
\* URI that matches the location is replaced by the URI of proxy_pass;
\* location / { proxy_pass http://127.0.0.1:3000; } takes the rest
NginxLocation(path) ==
  IF Len(path) >= 2 /\ Head(path) = "api"
  THEN [host |-> "127.0.0.1", port |-> BackendPort,
        path |-> <<"api">> \o Drop(path, 1)]
  ELSE NextRewrite(path)

ProxyRules == {"next", "nginx"}

Forward(rule, path) ==
  IF rule = "nginx" THEN NginxLocation(path) ELSE NextRewrite(path)

----------------------------------------------------------------------------
(* deploy.sh and the API start script.  A file name is the sequence of its   *)
(* segments from the project root; every external command either succeeds    *)
(* or fails, and under set -e a failure that is not guarded ends the script. *)

Absent == [kind |-> "absent"]
Dir(mode) == [kind |-> "dir", mode |-> mode]
File(content, mode) == [kind |-> "file", content |-> content, mode |-> mode]

CookiePath == <<"cookies.txt">>
Paths == {CookiePath, <<"logs">>, <<"tmp">>, <<"server">>,
          <<"server", "venv">>, <<"nginx.conf">>}

\* the cookie files a run may find: none, an empty one, the template, real cookies
CookieFiles ==
  {Absent, File(<<>>, "644"), File(<<"# Netscape HTTP Cookie File">>, "644"),
   File(<<"# Netscape HTTP Cookie File", ".youtube.com YSC">>, "644"),
   File(<<"# Netscape HTTP Cookie File", ".youtube.com YSC">>, "600")}

RECURSIVE Normalize(_, _)
Normalize(done, rest) ==
  IF rest = <<>> THEN done
  ELSE IF Head(rest) = ".."
       THEN Normalize(SubSeq(done, 1, Len(done) - 1), Tail(rest))
       ELSE Normalize(Append(done, Head(rest)), Tail(rest))

\* the file a relative name denotes in a working directory
Resolve(dir, name) == Normalize(dir, name)

\* [ -f name ]
IsFile(f, dir, name) == f[Resolve(dir, name)].kind = "file"

\* [ -s name ]
NonEmpty(f, dir, name) ==
  f[Resolve(dir, name)].kind = "file" /\ f[Resolve(dir, name)].content /= <<>>

\* [ -d name ]
IsDir(f, dir, name) == f[Resolve(dir, name)].kind = "dir"

\* a chmod that creates the file it is given, as touch would
ChmodCreating(f, dir, name, mode) ==
  IF f[Resolve(dir, name)].kind = "absent"
  THEN [f EXCEPT ![Resolve(dir, name)] = File(<<>>, mode)]
  ELSE [f EXCEPT ![Resolve(dir, name)].mode = mode]

\* chmod mode name: fails, and changes nothing, when there is no such file
Chmod(f, dir, name, mode) ==
  IF f[Resolve(dir, name)].kind = "absent"
  THEN f
  ELSE [f EXCEPT ![Resolve(dir, name)].mode = mode]

\* mkdir -p name
MkdirP(f, dir, name) ==
  IF f[Resolve(dir, name)].kind = "absent"
  THEN [f EXCEPT ![Resolve(dir, name)] = Dir("755")]
  ELSE f

\* the message the scripts print about the cookie file
CookieMessage(f, dir, name) ==
  IF ~IsFile(f, dir, name) \/ ~NonEmpty(f, dir, name)
  THEN "cookies.txt is missing or empty!"
  ELSE "cookies.txt found and configured."

DeployInit ==
  /\ script = "deploy"
  /\ pc = "node"
  /\ cwd = <<>>
  /\ \E c \in CookieFiles, venv \in {Absent, Dir("755")},
        conf \in {Absent, File(<<"server">>, "644")},
        logs \in {Absent, Dir("700")} :
       /\ fs = [p \in Paths |->
                  IF p = CookiePath THEN c
                  ELSE IF p = <<"server", "venv">> THEN venv
                  ELSE IF p = <<"nginx.conf">> THEN conf
                  ELSE IF p = <<"logs">> THEN logs
                  ELSE IF p = <<"server">> THEN Dir("755")
                  ELSE Absent]
       /\ cookie0 = c
  /\ nodeMajor \in {0, 18, 20}
  /\ npm \in BOOLEAN
  /\ nodeMajor = 0 => ~npm
  /\ out = ""

StartInit ==
  /\ script = "start"
  /\ pc = "python"
  /\ cwd = <<"server">>
  /\ \E c \in CookieFiles, venv \in {Absent, Dir("755")} :
       /\ fs = [p \in Paths |->
                  IF p = CookiePath THEN c
                  ELSE IF p = <<"server", "venv">> THEN venv
                  ELSE IF p = <<"server">> THEN Dir("755")
                  ELSE Absent]
       /\ cookie0 = c
  /\ nodeMajor \in {0, 20}
  /\ npm = (nodeMajor /= 0)
  /\ out = ""

\* a step of a script that changes nothing but the place in the script
Goto(label) ==
  /\ pc' = label
  /\ UNCHANGED <<script, cwd, fs, cookie0, nodeMajor, npm, out>>
  /\ UNCHANGED formVars

\* an external command that succeeds, or fails and ends the script
Run(label) == \E ok \in BOOLEAN : Goto(IF ok THEN label ELSE "aborted")

\* deploy.sh: install Node.js 20 when node is not found
DeployNode ==
  /\ script = "deploy" /\ pc = "node"
  /\ IF nodeMajor = 0
     THEN \E ok \in BOOLEAN :
            /\ pc' = IF ok THEN "npm" ELSE "aborted"
            /\ nodeMajor' = IF ok THEN 20 ELSE nodeMajor
            /\ npm' = (ok \/ npm)
            /\ UNCHANGED <<script, cwd, fs, cookie0, out>>
            /\ UNCHANGED formVars
     ELSE Goto("npm")

\* deploy.sh: npm must be there
DeployNpm ==
  /\ script = "deploy" /\ pc = "npm"
  /\ Goto(IF npm THEN "nodeVersion" ELSE "aborted")

\* deploy.sh: upgrade a Node.js older than 20
DeployNodeVersion ==
  /\ script = "deploy" /\ pc = "nodeVersion"
  /\ IF nodeMajor < 20
     THEN \E ok \in BOOLEAN :
            /\ pc' = IF ok THEN "apt" ELSE "aborted"
            /\ nodeMajor' = IF ok THEN 20 ELSE nodeMajor
            /\ UNCHANGED <<script, cwd, fs, cookie0, npm, out>>
            /\ UNCHANGED formVars
     ELSE Goto("apt")

\* deploy.sh: apt-get update, apt-get install
DeployApt == script = "deploy" /\ pc = "apt" /\ Run("npmCi")

\* deploy.sh: npm ci, or npm install when it fails
DeployNpmCi == script = "deploy" /\ pc = "npmCi" /\ Run("cookieCheck")

\* deploy.sh: the check of cookies.txt in the project root
DeployCookieCheck ==
  /\ script = "deploy" /\ pc = "cookieCheck"
  /\ out' = CookieMessage(fs, cwd, <<"cookies.txt">>)
  /\ pc' = "build"
  /\ UNCHANGED <<script, cwd, fs, cookie0, nodeMajor, npm>>
  /\ UNCHANGED formVars

\* deploy.sh: npm run build
DeployBuild == script = "deploy" /\ pc = "build" /\ Run("mkdir")

\* deploy.sh: mkdir -p logs tmp server
DeployMkdir ==
  /\ script = "deploy" /\ pc = "mkdir"
  /\ fs' = MkdirP(MkdirP(MkdirP(fs, cwd, <<"logs">>), cwd, <<"tmp">>),
                  cwd, <<"server">>)
  /\ pc' = "chmodCookie"
  /\ UNCHANGED <<script, cwd, cookie0, nodeMajor, npm, out>>
  /\ UNCHANGED formVars

\* deploy.sh: chmod 600 cookies.txt 2>/dev/null || true
DeployChmodCookie ==
  /\ script = "deploy" /\ pc = "chmodCookie"
  /\ \E ok \in BOOLEAN :
       fs' = IF ok THEN Chmod(fs, cwd, <<"cookies.txt">>, "600") ELSE fs
  /\ pc' = "chmodDirs"
  /\ UNCHANGED <<script, cwd, cookie0, nodeMajor, npm, out>>
  /\ UNCHANGED formVars

\* deploy.sh: chmod 755 logs tmp
DeployChmodDirs ==
  /\ script = "deploy" /\ pc = "chmodDirs"
  /\ \E ok \in BOOLEAN :
       /\ fs' = IF ok THEN Chmod(Chmod(fs, cwd, <<"logs">>, "755"),
                                 cwd, <<"tmp">>, "755")
                ELSE fs
       /\ pc' = IF ok THEN "venv" ELSE "aborted"
  /\ UNCHANGED <<script, cwd, cookie0, nodeMajor, npm, out>>
  /\ UNCHANGED formVars

\* deploy.sh: cd server, and python3 -m venv venv when there is none
DeployVenv ==
  /\ script = "deploy" /\ pc = "venv"
  /\ LET dir == Resolve(cwd, <<"server">>) IN
     \E ok \in BOOLEAN :
       /\ cwd' = dir
       /\ fs' = IF ok THEN MkdirP(fs, dir, <<"venv">>) ELSE fs
       /\ pc' = IF ok \/ IsDir(fs, dir, <<"venv">>) THEN "pip" ELSE "aborted"
  /\ UNCHANGED <<script, cookie0, nodeMajor, npm, out>>
  /\ UNCHANGED formVars

\* deploy.sh: source venv/bin/activate, pip install
DeployPip == script = "deploy" /\ pc = "pip" /\ Run("cookieCheck2")

\* deploy.sh: the check of ../cookies.txt, and chmod 600 ../cookies.txt || true
DeployCookieCheck2 ==
  /\ script = "deploy" /\ pc = "cookieCheck2"
  /\ IF ~IsFile(fs, cwd, <<"..", "cookies.txt">>)
        \/ ~NonEmpty(fs, cwd, <<"..", "cookies.txt">>)
     THEN /\ out' = "cookies.txt is missing or empty at project root."
          /\ fs' = fs
     ELSE /\ out' = out
          /\ \E ok \in BOOLEAN :
               fs' = IF ok THEN Chmod(fs, cwd, <<"..", "cookies.txt">>, "600")
                     ELSE fs
  /\ pc' = "pm2"
  /\ UNCHANGED <<script, cwd, cookie0, nodeMajor, npm>>
  /\ UNCHANGED formVars

\* deploy.sh: cd .., and the pm2 commands
DeployPm2 ==
  /\ script = "deploy" /\ pc = "pm2"
  /\ \E ok \in BOOLEAN :
       /\ cwd' = Resolve(cwd, <<"..">>)
       /\ pc' = IF ok THEN "nginx" ELSE "aborted"
  /\ UNCHANGED <<script, fs, cookie0, nodeMajor, npm, out>>
  /\ UNCHANGED formVars

\* deploy.sh: the nginx site, when nginx.conf is in the project root
DeployNginx ==
  /\ script = "deploy" /\ pc = "nginx"
  /\ IF IsFile(fs, cwd, <<"nginx.conf">>) THEN Run("done") ELSE Goto("done")

\* start script: python3 must be there
StartPython == script = "start" /\ pc = "python" /\ Run("pipCheck")

\* start script: pip3 or pip must be there
StartPipCheck == script = "start" /\ pc = "pipCheck" /\ Run("venv")

\* start script: python3 -m venv venv when there is none
StartVenv ==
  /\ script = "start" /\ pc = "venv"
  /\ \E ok \in BOOLEAN :
       /\ fs' = IF ok THEN MkdirP(fs, cwd, <<"venv">>) ELSE fs
       /\ pc' = IF ok \/ IsDir(fs, cwd, <<"venv">>) THEN "pip" ELSE "aborted"
  /\ UNCHANGED <<script, cwd, cookie0, nodeMajor, npm, out>>
  /\ UNCHANGED formVars

\* start script: source venv/bin/activate, pip install -r requirements.txt
StartPip == script = "start" /\ pc = "pip" /\ Run("cookieCheck")

\* start script: the check of ../cookies.txt
StartCookieCheck ==
  /\ script = "start" /\ pc = "cookieCheck"
  /\ out' = IF ~IsFile(fs, cwd, <<"..", "cookies.txt">>)
            THEN "cookies.txt not found in parent directory!"
            ELSE out
  /\ pc' = "ffmpeg"
  /\ UNCHANGED <<script, cwd, fs, cookie0, nodeMajor, npm>>
  /\ UNCHANGED formVars

\* start script: ffmpeg must be there
StartFfmpeg == script = "start" /\ pc = "ffmpeg" /\ Run("serve")

\* start script: python3 app.py (the script ends by running the server)
StartServe == script = "start" /\ pc = "serve" /\ Goto("serving")

ScriptInit == FormInit /\ (DeployInit \/ StartInit)

ScriptNext ==
  \/ DeployNode
  \/ DeployNpm
  \/ DeployNodeVersion
  \/ DeployApt
  \/ DeployNpmCi
  \/ DeployCookieCheck
  \/ DeployBuild
  \/ DeployMkdir
  \/ DeployChmodCookie
  \/ DeployChmodDirs
  \/ DeployVenv
  \/ DeployPip
  \/ DeployCookieCheck2
  \/ DeployPm2
  \/ DeployNginx
  \/ StartPython
  \/ StartPipCheck
  \/ StartVenv
  \/ StartPip
  \/ StartCookieCheck
  \/ StartFfmpeg
  \/ StartServe

ScriptSpec == ScriptInit /\ [][ScriptNext]_vars

\* C7: on every path of both scripts the cookie file is neither created nor
\* has its contents changed: absent before, absent after; present before,
\* present after with the same contents.
C7_CookieFileUntouched ==
  script \in {"deploy", "start"} =>
    LET c == fs[CookiePath] IN
      /\ cookie0.kind = "absent" => c.kind = "absent"
      /\ cookie0.kind = "file" => c.kind = "file" /\ c.content = cookie0.content

C7_Witness ==
  /\ script = "deploy" /\ pc = "done"
  /\ cookie0.kind = "file" /\ cookie0.mode = "644"
  /\ fs[CookiePath].mode = "600"

----------------------------------------------------------------------------
(* Properties of the download form *)

FormState == <<url, loading, error, downloadData, progress>>

PatternPrefixes ==
  {a \o b \o c \o sSlash :
     a \in {<<>>, sHttp \o sColon, sHttp \o sS \o sColon},
     b \in {<<>>, sWww},
     c \in {sTube \o sDot \o sCom, sYoutuBe}}

MatchesPattern(u) ==
  \E p \in PatternPrefixes : StartsWith(u, p) /\ Len(u) > Len(p)

\* C2: a Convert submission issues a video-info request for the entered URL if
\* and only if the URL is non-blank after trimming and matches the YouTube
\* pattern; any other submission issues nothing and sets a validation message.
C2_RequestIffValid ==
  last.op = "submit" =>
    IF Trim(url) /= <<>> /\ MatchesPattern(url)
    THEN /\ last.issued = 1
         /\ \E r \in InfoInFlight : r.body.url = url
    ELSE /\ last.issued = 0
         /\ inflight = EmptyBag
         /\ error \in {"Please enter a YouTube URL",
                        "Please enter a valid YouTube URL"}

C2_Witness ==
  /\ last.op = "submit" /\ last.issued = 1
  /\ StartsWith(url, sHttp \o sColon \o sWww \o sYoutuBe)

\* C3: after a failed video-info request the form shows a non-empty error, holds
\* no video result, and no video-info request is outstanding (nothing is retried).
C3_FailureShown ==
  last.op = "infoFail" =>
    /\ error /= ""
    /\ downloadData = Null
    /\ ~loading
    /\ InfoInFlight = {}
    /\ last.issued = 0

C3_Witness ==
  /\ last.op = "infoFail"
  /\ error = "An error occurred while processing the video"

\* C4: a download request is issued only while the result of a successful
\* video-info request is held; a Download action without a result issues no
\* request and changes no state.
C4_DownloadNeedsResult ==
  [][last'.op = "download" =>
       IF downloadData = Null
       THEN inflight' = inflight /\ FormState' = FormState /\ last'.issued = 0
       ELSE /\ progress = 100
            /\ \E r \in BagToSet(inflight') :
                 /\ IsDownload(r)
                 /\ r.body.videoId = downloadData.videoId
                 /\ r.body.title = downloadData.title]_vars

C4_Witness ==
  /\ last.op = "download" /\ last.issued = 0
  /\ downloadData = Null /\ error /= ""

\* sample request paths under /api/
ApiPaths ==
  {<<"api", "video-info">>, <<"api", "download">>, <<"api", "a", "b">>}

Forwarded(path) ==
  \A rule \in ProxyRules :
    /\ Forward(rule, path).port = BackendPort
    /\ Forward(rule, path).path = path

\* C5: every request of the form targets a same-origin path under /api/, and
\* both proxy rules forward an /api/<path> request to port 5000 unchanged.
C5_PassThrough ==
  /\ \A r \in InFlight :
       /\ r.target.origin = "self"
       /\ Len(r.target.path) >= 2 /\ Head(r.target.path) = "api"
       /\ Forwarded(r.target.path)
  /\ \A path \in ApiPaths : Forwarded(path)

C5_Witness == InfoInFlight /= {} /\ DownloadInFlight /= {}

\* C6, as stated: the program bounds the requests a client has outstanding, so
\* the number in flight stays below the number the exploration allows.
C6_RateLimited == NInFlight < MaxInFlight

\* C8, as stated: the url of every download request is the URL whose video-info
\* response gave the videoId and title of that request.
C8_UrlMatchesResult ==
  \A r \in DownloadInFlight :
    /\ r.body.videoId = VideoInfo(r.body.url).videoId
    /\ r.body.title = VideoInfo(r.body.url).title

\* C9, as stated: the failure of a download begun before a newer Convert was
\* accepted leaves the error message as it was.
C9_LateFailureIgnored ==
  [][(last'.op = "downloadFail" /\ last'.superseded) => error' = error]_vars

\* C10: at most one video-info request is in flight, and one is in flight
\* exactly while loading is true (which disables the input and the button).
C10_OneVideoInfo ==
  /\ Count(InfoInFlight) <= 1
  /\ loading <=> InfoInFlight /= {}
  /\ loading => ~ConvertEnabled

C10_Witness ==
  /\ loading /\ Count(InfoInFlight) = 1
  /\ DownloadInFlight /= {}

====
